---- MODULE Spec2Model ----
(***************************************************************************)
(* craftql: the dependency graph built from a corpus of GraphQL schema     *)
(* files (src/src/utils.rs, populate_graph_from_ast), the shared state it  *)
(* is built in (src/src/state.rs) and the queries main runs on it          *)
(* (src/src/bin.rs).                                                       *)
(*                                                                         *)
(* A file's contents are modelled by what graphql_parser::parse_schema     *)
(* returns for them: a syntax error, or the ordered sequence of top-level  *)
(* definitions of the document.  Names are strings, so that an id built by *)
(* concatenation can meet a name that was written that way.                *)
(***************************************************************************)
EXTENDS Naturals, Sequences, FiniteSets, TLC

VARIABLES
    files,                \* Data.files: path -> contents, as get_files left it
    pc,                   \* where main / populate_graph_from_ast stands
    todo_files,           \* files the `for (file, contents) in files` loop has not taken yet
    graph,                \* Data.graph: [nodes: Seq(Node), edges: SUBSET (NodeIndex \X NodeIndex)]
    dependency_hash_map,  \* populate_graph_from_ast's local HashMap<NodeIndex, Vec<String>>
    todo_entries,         \* keys the `for ... in dependency_hash_map` loop has not taken yet
    lookups,              \* every `maybe_index` computed so far: [node, pos, dependency, index]
    missing_definitions,  \* Data.missing_definitions: NodeIndex -> Vec<String>
    result,               \* what main returned: "none" while running, "Ok", "Err"
    flag,                 \* the flag of Opts main acted on: "none" until it did
    orphans,              \* what find_and_print_orphans found: a sequence of node indices
    filter,               \* Opts.filter: the GraphQL kinds given with --filter
    schema_type,          \* the declaration handed to the extractors
    extracted,            \* <<list>> once ExtendType::get_dependencies returned, else <<>>
    walked,               \* <<list>> once the arm of the build's match ran, else <<>>
    disk,                 \* the file system: path -> what fs::metadata and fs::read_to_string give
    opts_path,            \* Opts.path: the path main hands to get_files
    allowed_extensions,   \* config::ALLOWED_EXTENSIONS
    stack,                \* the read_dir iterators of the get_files calls that are running
    lock,                 \* the Mutex around Data: whether a guard is alive, and the
                          \* inserts and lookups made under the guard taken last
    edge_count,           \* Data.graph's edge list: (source, target) -> how many edges
    asked,                \* the argument of the query flag main acted on
    printed,              \* the node indices whose entities the query printed, in order
    calls,                \* the arguments of the walk_field_type calls that are running
    returned              \* <<name>> once a call of walk_field_type returned, else <<>>

vars == <<files, pc, todo_files, graph, dependency_hash_map, todo_entries,
          lookups, missing_definitions, result, flag, orphans, filter,
          schema_type, extracted, walked, disk, opts_path, allowed_extensions, stack,
          lock, edge_count, asked, printed, calls, returned>>

\* What the build and the queries never write.
aside == <<filter, schema_type, extracted, walked, disk, opts_path, allowed_extensions,
           stack, asked, printed, calls, returned>>

-----------------------------------------------------------------------------
(* Bounds of the model. *)

\* Most definitions a corpus holds, all files together.
MaxDecls == 3

\* The paths get_files may have collected.
Paths == {"A.gql", "B.gql"}

-----------------------------------------------------------------------------
(* graphql_parser::schema, as far as the walk reads it. *)

None == "<None>"

NamedType(name) == [t |-> "NamedType", name |-> name, of |-> None]
ListType(ty) == [t |-> "ListType", name |-> None, of |-> ty]
NonNullType(ty) == [t |-> "NonNullType", name |-> None, of |-> ty]

\* schema::Field
Field(arguments, directives, field_type) ==
    [arguments |-> arguments, directives |-> directives, field_type |-> field_type]

\* schema::InputValue
InputValue(directives, value_type) ==
    [directives |-> directives, value_type |-> value_type]

\* schema::EnumValue
EnumValue(directives) == [directives |-> directives]

\* One schema::Definition.  `def` is the variant of schema::Definition and
\* `type` the variant of schema::TypeDefinition / schema::TypeExtension.
Definition(def, type, name, directives, fields, values, interfaces, types, roots) ==
    [def |-> def, type |-> type, name |-> name, directives |-> directives,
     fields |-> fields, values |-> values, implements_interfaces |-> interfaces,
     types |-> types, query |-> roots[1], mutation |-> roots[2],
     subscription |-> roots[3]]

NoRoots == <<None, None, None>>

ObjectType(name, directives, fields, interfaces) ==
    Definition("TypeDefinition", "Object", name, directives, fields, <<>>, interfaces, <<>>, NoRoots)
InterfaceType(name, directives, fields) ==
    Definition("TypeDefinition", "Interface", name, directives, fields, <<>>, <<>>, <<>>, NoRoots)
InputObjectType(name, directives, fields) ==
    Definition("TypeDefinition", "InputObject", name, directives, fields, <<>>, <<>>, <<>>, NoRoots)
EnumType(name, directives, values) ==
    Definition("TypeDefinition", "Enum", name, directives, <<>>, values, <<>>, <<>>, NoRoots)
ScalarType(name, directives) ==
    Definition("TypeDefinition", "Scalar", name, directives, <<>>, <<>>, <<>>, <<>>, NoRoots)
UnionType(name, directives, types) ==
    Definition("TypeDefinition", "Union", name, directives, <<>>, <<>>, <<>>, types, NoRoots)
SchemaDefinition(query, mutation, subscription) ==
    Definition("SchemaDefinition", None, None, <<>>, <<>>, <<>>, <<>>, <<>>,
               <<query, mutation, subscription>>)
DirectiveDefinition(name, arguments) ==
    Definition("DirectiveDefinition", None, name, <<>>, arguments, <<>>, <<>>, <<>>, NoRoots)

\* `extend ...`: the same body under schema::Definition::TypeExtension.
Extend(d) == [d EXCEPT !.def = "TypeExtension"]

-----------------------------------------------------------------------------
(* Helpers on sequences. *)

RECURSIVE Flatten(_)
Flatten(ss) == IF ss = <<>> THEN <<>> ELSE Head(ss) \o Flatten(Tail(ss))

RECURSIVE FilterSome(_)
FilterSome(s) ==
    IF s = <<>> THEN <<>>
    ELSE IF Head(s) = None THEN FilterSome(Tail(s))
    ELSE <<Head(s)>> \o FilterSome(Tail(s))

Range(s) == {s[i] : i \in DOMAIN s}

-----------------------------------------------------------------------------
(* src/src/utils.rs: the walk of one definition. *)

ExtendedIdSuffix == "Ext"

\* The id of an extension left as the name of the type it extends.
get_extended_id_unchanged(id) == id

get_extended_id(id) == id \o ExtendedIdSuffix

RECURSIVE walk_field_type(_)
walk_field_type(field_type) ==
    IF field_type.t = "NamedType" THEN field_type.name
    ELSE walk_field_type(field_type.of)

walk_field(field) ==
    [i \in DOMAIN field.arguments |-> walk_field_type(field.arguments[i].value_type)]
    \o field.directives
    \o <<walk_field_type(field.field_type)>>

walk_input_value(input_value) ==
    input_value.directives \o <<walk_field_type(input_value.value_type)>>

WalkFields(fields) == Flatten([i \in DOMAIN fields |-> walk_field(fields[i])])

WalkInputValues(fields) == Flatten([i \in DOMAIN fields |-> walk_input_value(fields[i])])

\* The dependency list each arm of the match builds.
Dependencies(d) ==
    CASE d.def = "TypeDefinition" /\ d.type = "Enum" ->
            d.directives \o Flatten([i \in DOMAIN d.values |-> d.values[i].directives])
      [] d.def = "TypeDefinition" /\ d.type = "InputObject" ->
            WalkInputValues(d.fields) \o d.directives
      [] d.def = "TypeDefinition" /\ d.type = "Interface" ->
            WalkFields(d.fields)
      [] d.def = "TypeDefinition" /\ d.type = "Object" ->
            WalkFields(d.fields) \o d.implements_interfaces
      [] d.def = "TypeDefinition" /\ d.type = "Scalar" ->
            <<>>
      [] d.def = "TypeDefinition" /\ d.type = "Union" ->
            d.types
      [] d.def = "SchemaDefinition" ->
            FilterSome(<<d.query, d.mutation, d.subscription>>)
      [] d.def = "DirectiveDefinition" ->
            WalkInputValues(d.fields)
      [] d.def = "TypeExtension" /\ d.type = "Object" ->
            WalkFields(d.fields) \o d.implements_interfaces \o <<d.name>>
      [] d.def = "TypeExtension" /\ d.type = "Scalar" ->
            d.directives \o <<d.name>>
      [] d.def = "TypeExtension" /\ d.type = "Interface" ->
            d.directives \o WalkFields(d.fields) \o <<d.name>>
      [] d.def = "TypeExtension" /\ d.type = "Union" ->
            d.types \o <<d.name>>
      [] d.def = "TypeExtension" /\ d.type = "Enum" ->
            <<d.name>>
      [] d.def = "TypeExtension" /\ d.type = "InputObject" ->
            WalkInputValues(d.fields) \o <<d.name>>

\* The display name given to Entity::new.
EntityName(d) == IF d.def = "SchemaDefinition" THEN "Schema" ELSE d.name

\* The id given to Node::new.
NodeId(d) ==
    CASE d.def = "SchemaDefinition" -> "Schema"
      [] d.def = "TypeExtension" -> get_extended_id(d.name)
      [] OTHER -> d.name

\* The GraphQL tag given to Entity::new.
MappedType(d) ==
    CASE d.def = "SchemaDefinition" -> [kind |-> "Schema", type |-> None]
      [] d.def = "DirectiveDefinition" -> [kind |-> "Directive", type |-> None]
      [] d.def = "TypeExtension" /\ d.type = "Interface" ->
            [kind |-> "TypeExtension", type |-> "Scalar"]
      [] OTHER -> [kind |-> d.def, type |-> d.type]

\* Every arm but Scalar's records its list in dependency_hash_map.
RecordsDependencies(d) == ~(d.def = "TypeDefinition" /\ d.type = "Scalar")

\* Node::new(Entity::new(dependencies, graphql, name, file, contents), id)
Node(d, file) ==
    [entity |-> [dependencies |-> Dependencies(d), graphql |-> MappedType(d),
                 name |-> EntityName(d), path |-> file],
     id |-> NodeId(d)]

\* One turn of `for definition in ast.definitions`: graph.add_node, then
\* dependency_hash_map.insert under the new index.
AddDefinition(st, d, file) ==
    LET node_index == Len(st.graph.nodes) + 1
    IN  [graph |-> [st.graph EXCEPT !.nodes = Append(@, Node(d, file))],
         map   |-> IF RecordsDependencies(d)
                   THEN [i \in DOMAIN st.map \cup {node_index} |->
                            IF i = node_index THEN Dependencies(d) ELSE st.map[i]]
                   ELSE st.map]

RECURSIVE AddDefinitions(_, _, _)
AddDefinitions(st, definitions, file) ==
    IF definitions = <<>> THEN st
    ELSE AddDefinitions(AddDefinition(st, Head(definitions), file), Tail(definitions), file)

-----------------------------------------------------------------------------
(* The corpora the model builds: what get_files left in Data.files. *)

\* The definitions a corpus is drawn from: a type and its extension, a type
\* whose name is another type's name followed by the suffix and its
\* extension, a name declared twice (Bar), a name declared nowhere (Woot),
\* a schema block, a root type, a directive.
Pool ==
    { ObjectType("Foo", <<>>,
          <<Field(<<>>, <<>>, NonNullType(NamedType("Bar")))>>, <<>>),
      Extend(ObjectType("Foo", <<>>,
          <<Field(<<>>, <<>>, ListType(NamedType("Woot")))>>, <<>>)),
      ObjectType("FooExt", <<>>,
          <<Field(<<InputValue(<<>>, NamedType("Int"))>>, <<"test">>,
                  NamedType("Foo"))>>, <<"Bar">>),
      Extend(ObjectType("FooExt", <<"test">>, <<>>, <<>>)),
      ScalarType("Bar", <<"test">>),
      UnionType("Bar", <<>>, <<"Foo", "Foo">>),
      SchemaDefinition("Query", None, None),
      ObjectType("Query", <<>>,
          <<Field(<<>>, <<>>, NonNullType(ListType(NamedType("Foo"))))>>, <<>>),
      DirectiveDefinition("test", <<InputValue(<<>>, NamedType("String"))>>) }

\* parse_schema(contents): Err, or Ok(ast) with ast.definitions.
ParseError == [ok |-> FALSE, definitions |-> <<>>]
Parsed(definitions) == [ok |-> TRUE, definitions |-> definitions]

\* The definitions of ds that `where` puts in the file at `path`, in order.
RECURSIVE DefinitionsIn(_, _, _)
DefinitionsIn(ds, where, path) ==
    IF ds = <<>> THEN <<>>
    ELSE (IF Head(where) = path THEN <<Head(ds)>> ELSE <<>>)
         \o DefinitionsIn(Tail(ds), Tail(where), path)

\* The file map that holds the definitions ds, each in the file `where`
\* names for it, and the files of `bad`, which do not parse.
Corpus(ds, where, bad) ==
    [path \in Range(where) \cup bad |->
        IF path \in bad THEN ParseError
        ELSE Parsed(DefinitionsIn(ds, where, path))]

-----------------------------------------------------------------------------
(* The state State::new builds (src/src/state.rs), once get_files returned. *)

EmptyMap == <<>>

\* Opts without a query flag.
NoQuery == [ids |-> <<>>, direction |-> None]

\* Mutex::new(..): no guard is alive and nothing was done under one.
Unlocked == [held |-> FALSE, operations |-> 0]

Init ==
    /\ \E k \in 0..MaxDecls :
          \E ds \in [1..k -> Pool], where \in [1..k -> Paths] :
             \E bad \in SUBSET (Paths \ Range(where)) :
                files = Corpus(ds, where, bad)
    /\ pc = "collected"
    /\ todo_files = {}
    /\ graph = [nodes |-> <<>>, edges |-> {}]
    /\ dependency_hash_map = EmptyMap
    /\ todo_entries = {}
    /\ lookups = {}
    /\ missing_definitions = EmptyMap
    /\ result = "none"
    /\ flag = "none"
    /\ orphans = <<>>
    /\ filter = {}
    /\ schema_type = None
    /\ extracted = <<>>
    /\ walked = <<>>
    /\ disk = EmptyMap
    /\ opts_path = None
    /\ allowed_extensions = {}
    /\ stack = <<>>
    /\ lock = Unlocked
    /\ edge_count = EmptyMap
    /\ asked = NoQuery
    /\ printed = <<>>
    /\ calls = <<>>
    /\ returned = <<>>

-----------------------------------------------------------------------------
(* populate_graph_from_ast (src/src/utils.rs). *)

\* graph.node_indices().find(|index| graph[*index].id == dependency):
\* the first index whose node has that id; 0 stands for None.
FindIndex(nodes, dependency) ==
    LET found == {i \in DOMAIN nodes : nodes[i].id = dependency}
    IN  IF found = {} THEN 0
        ELSE CHOOSE i \in found : \A j \in found : i <= j

\* A name resolved only against the nodes added before the one that lists it.
EdgeForEarlierNode(nodes, node_index, dependency) ==
    LET index == FindIndex(nodes, dependency)
    IN  IF index # 0 /\ index < node_index THEN {<<index, node_index>>} ELSE {}

\* What one dependency adds: graph.update_edge(index, node_index, ..) when
\* the name is found.  update_edge adds no second edge between the same pair.
EdgeFor(nodes, node_index, dependency) ==
    LET index == FindIndex(nodes, dependency)
    IN  IF index # 0 THEN {<<index, node_index>>} ELSE {}

\* The loop over the dependencies left after its first turn.
EdgesForFirstDependency(nodes, node_index, dependencies) ==
    UNION {EdgeFor(nodes, node_index, dependencies[i]) : i \in DOMAIN dependencies \cap {1}}

\* The body of `for dependency in dependencies` for one entry of the map.
EdgesFor(nodes, node_index, dependencies) ==
    UNION {EdgeFor(nodes, node_index, dependencies[i]) : i \in DOMAIN dependencies}

LookupsFor(nodes, node_index, dependencies) ==
    {[node |-> node_index, pos |-> i, dependency |-> dependencies[i],
      index |-> FindIndex(nodes, dependencies[i])] : i \in DOMAIN dependencies}

\* data.graph.add_edge(index, node_index, ..): one more edge for the pair,
\* whether or not the graph holds one.
add_edge(count, a, b) ==
    [e \in DOMAIN count \cup {<<a, b>>} |->
        IF e \in DOMAIN count
        THEN (IF e = <<a, b>> THEN count[e] + 1 ELSE count[e])
        ELSE 1]

\* data.graph.update_edge(index, node_index, ..): petgraph looks for an
\* edge from a to b and replaces its weight; only when there is none does
\* it add one.
update_edge(count, a, b) ==
    IF <<a, b>> \in DOMAIN count THEN count
    ELSE (<<a, b>> :> 1) @@ count

\* The edge list after `for dependency in dependencies`.
RECURSIVE UpdateEdges(_, _, _, _)
UpdateEdges(count, nodes, node_index, dependencies) ==
    IF dependencies = <<>> THEN count
    ELSE LET index == FindIndex(nodes, Head(dependencies))
         IN  UpdateEdges(IF index # 0 THEN update_edge(count, index, node_index) ELSE count,
                         nodes, node_index, Tail(dependencies))

\* Most inserts and lookups counted under one guard.
MaxOperations == 2

\* shared_data.lock().await: a new guard, nothing done under it yet.
Acquire == [held |-> TRUE, operations |-> 0]

\* k more inserts or lookups under the guard that is alive.
Cover(guard, k) ==
    [guard EXCEPT !.operations = IF @ + k > MaxOperations THEN MaxOperations ELSE @ + k]

\* The guard goes out of scope.
Release(guard) == [guard EXCEPT !.held = FALSE]

\* The second loop entered as soon as one file has been taken.
NodesPopulatedAfterOneFile == todo_files # DOMAIN files \/ todo_files = {}

\* `for (file, contents) in files` has taken every file.
NodesPopulated == todo_files = {}

\* let mut data = shared_data.lock().await; let files = &data.files.clone();
Populate ==
    /\ UNCHANGED aside
    /\ pc = "collected"
    /\ pc' = "nodes"
    /\ todo_files' = DOMAIN files
    /\ lock' = Acquire
    /\ UNCHANGED <<files, graph, dependency_hash_map, todo_entries, lookups,
                   missing_definitions, result, flag, orphans, edge_count>>

\* A loop that takes each file out of the map as it handles it.
FilesAfterDrain(fs, file) == [f \in DOMAIN fs \ {file} |-> fs[f]]

\* `let files = &data.files.clone()`: the loop runs over a copy of the map,
\* and no statement of the build writes data.files.
FilesAfter(fs, file) == fs

\* One turn of `for (file, contents) in files`, in the map's order: the `?`
\* on parse_schema returns the error out of the build and out of main.
ParseFile ==
    /\ UNCHANGED aside
    /\ pc = "nodes"
    /\ \E file \in todo_files :
        /\ IF files[file].ok
           THEN LET st == AddDefinitions([graph |-> graph, map |-> dependency_hash_map],
                                         files[file].definitions, file)
                IN  /\ graph' = st.graph
                    /\ dependency_hash_map' = st.map
                    /\ todo_files' = todo_files \ {file}
                    /\ lock' = Cover(lock, Len(files[file].definitions))
                    /\ UNCHANGED <<pc, result>>
           ELSE /\ pc' = "exit"
                /\ result' = "Err"
                /\ lock' = Release(lock)
                /\ UNCHANGED <<graph, dependency_hash_map, todo_files>>
        /\ files' = FilesAfter(files, file)
    /\ UNCHANGED <<todo_entries, lookups, missing_definitions, flag, orphans,
                   edge_count>>

\* The first loop is over: `for (node_index, dependencies) in dependency_hash_map`.
StartEdges ==
    /\ UNCHANGED aside
    /\ pc = "nodes"
    /\ NodesPopulated
    /\ pc' = "edges"
    /\ todo_entries' = DOMAIN dependency_hash_map
    /\ UNCHANGED <<files, todo_files, graph, dependency_hash_map, lookups,
                   missing_definitions, result, flag, orphans, lock, edge_count>>

\* One turn of the second loop, in the map's order.
PopulateEdges ==
    /\ UNCHANGED aside
    /\ pc = "edges"
    /\ \E node_index \in todo_entries :
        /\ graph' = [graph EXCEPT !.edges =
                        @ \cup EdgesFor(graph.nodes, node_index,
                                        dependency_hash_map[node_index])]
        /\ lookups' = lookups \cup LookupsFor(graph.nodes, node_index,
                                              dependency_hash_map[node_index])
        /\ edge_count' = UpdateEdges(edge_count, graph.nodes, node_index,
                                      dependency_hash_map[node_index])
        /\ lock' = Cover(lock, Len(dependency_hash_map[node_index]))
        /\ todo_entries' = todo_entries \ {node_index}
    /\ UNCHANGED <<files, pc, todo_files, dependency_hash_map,
                   missing_definitions, result, flag, orphans>>

\* Ok(()) of populate_graph_from_ast.
Built ==
    /\ UNCHANGED aside
    /\ pc = "edges"
    /\ todo_entries = {}
    /\ pc' = "built"
    /\ lock' = Release(lock)
    /\ UNCHANGED <<files, todo_files, graph, dependency_hash_map, todo_entries,
                   lookups, missing_definitions, result, flag, orphans, edge_count>>

-----------------------------------------------------------------------------
(* The queries main runs on the built graph (src/src/bin.rs). *)

RootNames == {"Query", "Mutation", "Subscription"}

IsSchema(node) == node.entity.graphql.kind = "Schema"

HasSchema(g) == \E i \in DOMAIN g.nodes : IsSchema(g.nodes[i])

\* The node is the target of no edge.
IsExternalIncoming(g, i) == ~ \E e \in g.edges : e[2] = i

\* graph.externals(Outgoing): the node is the source of no edge.
IsExternal(g, i) == ~ \E e \in g.edges : e[1] = i

\* The exemptions with the root names exempt whatever the graph holds.
IsExemptRootAlways(g, i) ==
    \/ IsSchema(g.nodes[i])
    \/ /\ g.nodes[i].entity.graphql = [kind |-> "TypeDefinition", type |-> "Object"]
       /\ g.nodes[i].entity.name \in RootNames

\* The two exemptions of the orphan report.
IsExempt(g, i) ==
    \/ IsSchema(g.nodes[i])
    \/ /\ g.nodes[i].entity.graphql = [kind |-> "TypeDefinition", type |-> "Object"]
       /\ g.nodes[i].entity.name \in RootNames
       /\ ~HasSchema(g)

\* The walk over the nodes from index i on, keeping the orphans in order.
RECURSIVE OrphansFrom(_, _)
OrphansFrom(g, i) ==
    IF i > Len(g.nodes) THEN <<>>
    ELSE IF IsExternal(g, i) /\ ~IsExempt(g, i)
         THEN <<i>> \o OrphansFrom(g, i + 1)
         ELSE OrphansFrom(g, i + 1)

find_orphans(g) == OrphansFrom(g, 1)

\* if opts.orphans { find_and_print_orphans(graph).await?; return Ok(()) }
FindAndPrintOrphans ==
    /\ UNCHANGED aside
    /\ pc = "built"
    /\ orphans' = find_orphans(graph)
    /\ flag' = "orphans"
    /\ pc' = "exit"
    /\ result' = "Ok"
    /\ UNCHANGED <<files, todo_files, graph, dependency_hash_map, todo_entries,
                   lookups, missing_definitions, lock, edge_count>>

\* No query flag: the graph is printed in dot form and main returns Ok(()).
RenderGraph ==
    /\ UNCHANGED aside
    /\ pc = "built"
    /\ pc' = "exit"
    /\ result' = "Ok"
    /\ flag' = "render"
    /\ UNCHANGED <<files, todo_files, graph, dependency_hash_map, todo_entries,
                   lookups, missing_definitions, orphans, lock, edge_count>>

-----------------------------------------------------------------------------

Next ==
    \/ Populate
    \/ ParseFile
    \/ StartEdges
    \/ PopulateEdges
    \/ Built
    \/ FindAndPrintOrphans
    \/ RenderGraph

Spec == Init /\ [][Next]_vars

-----------------------------------------------------------------------------
(* Vocabulary of the properties. *)

\* populate_graph_from_ast returned Ok(()): the graph is final.
BuildOk == pc = "built" \/ (pc = "exit" /\ result = "Ok")

\* The build returned the parse error.
BuildErr == pc = "exit" /\ result = "Err"

NodeIndices == DOMAIN graph.nodes

IdOf(i) == graph.nodes[i].id

DepsOf(i) == graph.nodes[i].entity.dependencies

IsExtensionNode(i) == graph.nodes[i].entity.graphql.kind = "TypeExtension"

IsDefinitionNode(i) == graph.nodes[i].entity.graphql.kind = "TypeDefinition"

\* Every definition of the corpus, by the file it stands in and its place there.
DeclarationsOfCorpus ==
    UNION {{[file |-> f, pos |-> k] : k \in DOMAIN files[f].definitions} :
           f \in {g \in DOMAIN files : files[g].ok}}

DefinitionAt(x) == files[x.file].definitions[x.pos]

AllParse == \A f \in DOMAIN files : files[f].ok

\* Every definition of every collected file is a node of the graph.
AllInserted ==
    /\ AllParse
    /\ todo_files = {}
    /\ Len(graph.nodes) = Cardinality(DeclarationsOfCorpus)
    /\ \A f \in DOMAIN files :
          \A k \in DOMAIN files[f].definitions :
             LET node == Node(files[f].definitions[k], f)
             IN  \E i \in NodeIndices : graph.nodes[i] = node

BuiltInScalars == {"Boolean", "Float", "ID", "Int", "String"}

-----------------------------------------------------------------------------
(* C1: the build is two-phase.  No dependency name is looked up and no     *)
(* edge is added before every definition of every collected file is a      *)
(* node; so, once the build has succeeded, every name of every recorded    *)
(* list was looked up against the complete node set, and a name that is    *)
(* the id of a node was resolved to a node of that id and gave an edge to  *)
(* the node that lists it, whichever file was taken first.                 *)
C1_TwoPhaseBuild ==
    /\ (lookups # {} \/ graph.edges # {}) => AllInserted
    /\ BuildOk =>
         /\ \A n \in DOMAIN dependency_hash_map :
              \A k \in DOMAIN dependency_hash_map[n] :
                 \E l \in lookups : l.node = n /\ l.pos = k
         /\ \A l \in lookups :
              (\E i \in NodeIndices : IdOf(i) = l.dependency) =>
                 /\ l.index \in NodeIndices
                 /\ IdOf(l.index) = l.dependency
                 /\ <<l.index, l.node>> \in graph.edges

\* A forward reference across files: the referenced definition became a
\* node after the definition that names it, and the edge is there.
C1_Witness ==
    /\ BuildOk
    /\ \E e \in graph.edges :
          /\ e[1] > e[2]
          /\ graph.nodes[e[1]].entity.path # graph.nodes[e[2]].entity.path

-----------------------------------------------------------------------------
(* C2: after a successful build, for every node B that is not an extension *)
(* and every node A, the edge A->B is in the graph if and only if A's id   *)
(* occurs in B's dependency list.                                          *)
C2_EdgeIffDependency ==
    BuildOk =>
        \A b \in NodeIndices : ~IsExtensionNode(b) =>
            \A a \in NodeIndices :
                <<a, b>> \in graph.edges <=> IdOf(a) \in Range(DepsOf(b))

-----------------------------------------------------------------------------
(* C3: after a successful build, for every extension node E and every name *)
(* of E's dependency list that is the id of a node R, the edge E->R is in  *)
(* the graph, and an edge R->E is there only when R itself lists E's id.   *)
C3_ExtensionEdgeReversed ==
    BuildOk =>
        \A e \in NodeIndices : IsExtensionNode(e) =>
            \A r \in NodeIndices : IdOf(r) \in Range(DepsOf(e)) =>
                /\ <<e, r>> \in graph.edges
                /\ <<r, e>> \in graph.edges => IdOf(e) \in Range(DepsOf(r))

-----------------------------------------------------------------------------
(* C4: when the corpus holds a type definition named X and an extension of *)
(* X, the built graph holds a node for each: the definition's id is X, the *)
(* extension's id is X followed by the suffix, the two ids differ, and     *)
(* both nodes carry the display name X.                                    *)
C4_ExtensionIsItsOwnNode ==
    BuildOk =>
        \A x \in DeclarationsOfCorpus, y \in DeclarationsOfCorpus :
            /\ DefinitionAt(x).def = "TypeDefinition"
            /\ DefinitionAt(y).def = "TypeExtension"
            /\ DefinitionAt(x).name = DefinitionAt(y).name
            => \E i \in NodeIndices, j \in NodeIndices :
                  /\ i # j
                  /\ IsDefinitionNode(i)
                  /\ IsExtensionNode(j)
                  /\ graph.nodes[i].entity.path = x.file
                  /\ graph.nodes[j].entity.path = y.file
                  /\ IdOf(i) = DefinitionAt(x).name
                  /\ IdOf(j) = DefinitionAt(x).name \o ExtendedIdSuffix
                  /\ IdOf(i) # IdOf(j)
                  /\ graph.nodes[i].entity.name = DefinitionAt(x).name
                  /\ graph.nodes[j].entity.name = DefinitionAt(x).name

\* A built graph that holds the definition of Foo and an extension of Foo.
C4_Witness ==
    /\ BuildOk
    /\ \E i \in NodeIndices, j \in NodeIndices :
          /\ IsDefinitionNode(i)
          /\ IsExtensionNode(j)
          /\ graph.nodes[i].entity.name = graph.nodes[j].entity.name
          /\ <<i, j>> \in graph.edges

-----------------------------------------------------------------------------
(* C5: for every extension node E of a type named X, the occurrence of X   *)
(* the walk appends to E's list (its last name) resolves, when a type      *)
(* definition named X is in the graph, to the node of a definition named   *)
(* X, with an edge between that node and E; it never resolves to E.        *)
C5_OwnNameResolvesToBase ==
    BuildOk =>
        \A l \in lookups :
            /\ IsExtensionNode(l.node)
            /\ l.pos = Len(DepsOf(l.node))
            => /\ l.index # l.node
               /\ (\E d \in NodeIndices :
                      IsDefinitionNode(d) /\ IdOf(d) = l.dependency)
                  => /\ l.index \in NodeIndices
                     /\ IsDefinitionNode(l.index)
                     /\ graph.nodes[l.index].entity.name = l.dependency
                     /\ \/ <<l.index, l.node>> \in graph.edges
                        \/ <<l.node, l.index>> \in graph.edges

-----------------------------------------------------------------------------
(* C6: in every graph a build produces, no two nodes have the same id.     *)
C6_NodeIdsUnique ==
    BuildOk =>
        \A i \in NodeIndices, j \in NodeIndices : IdOf(i) = IdOf(j) => i = j

-----------------------------------------------------------------------------
(* C7: the outcome of a build is a function of the corpus alone.  Whatever *)
(* the order in which the files are taken and the dependency map is        *)
(* walked, a build fails exactly when some file does not parse, and a      *)
(* build that succeeds yields the ids of the definitions of the corpus as  *)
(* its node ids and, as its edge (source id, target id) pairs, the pairs   *)
(* (name, id of the definition that lists it) whose name is such an id.    *)
IdsOfCorpus == {NodeId(DefinitionAt(x)) : x \in DeclarationsOfCorpus}

IdPairsOfCorpus ==
    UNION {{<<Dependencies(DefinitionAt(x))[k], NodeId(DefinitionAt(x))>> :
              k \in {k \in DOMAIN Dependencies(DefinitionAt(x)) :
                        /\ RecordsDependencies(DefinitionAt(x))
                        /\ Dependencies(DefinitionAt(x))[k] \in IdsOfCorpus}} :
           x \in DeclarationsOfCorpus}

C7_BuildIsOrderInsensitive ==
    /\ pc = "exit" => (result = "Err" <=> ~AllParse)
    /\ BuildOk =>
         /\ {IdOf(i) : i \in NodeIndices} = IdsOfCorpus
         /\ {<<IdOf(e[1]), IdOf(e[2])>> : e \in graph.edges} = IdPairsOfCorpus

\* A successful build that took B.gql before A.gql and resolved a name of
\* one file to a definition of the other.
C7_Witness ==
    /\ BuildOk
    /\ Len(graph.nodes) >= 2
    /\ graph.nodes[1].entity.path = "B.gql"
    /\ \E e \in graph.edges :
          graph.nodes[e[1]].entity.path # graph.nodes[e[2]].entity.path

-----------------------------------------------------------------------------
(* C8: when a collected file fails to parse, the build returns the error   *)
(* and the graph in the shared state holds no node and no edge.            *)
C8_NoPartialGraph ==
    BuildErr => graph.nodes = <<>> /\ graph.edges = {}

-----------------------------------------------------------------------------
(* C9: after a successful build, a name N is in the missing-definition     *)
(* list recorded for node X if and only if N occurs in X's dependency      *)
(* list, no node has id N, and N is not a built-in scalar.                 *)
MissingOf(i) ==
    IF i \in DOMAIN missing_definitions THEN Range(missing_definitions[i]) ELSE {}

C9_MissingDefinitionLaw ==
    BuildOk =>
        \A x \in NodeIndices :
            MissingOf(x) =
                {n \in Range(DepsOf(x)) :
                    /\ ~ \E i \in NodeIndices : IdOf(i) = n
                    /\ n \notin BuiltInScalars}

-----------------------------------------------------------------------------
(* C10: the orphan query returns, once each, exactly the nodes that are    *)
(* the source of no edge and are not exempted; a Schema node is never in   *)
(* the result.                                                             *)
C10_OrphansAreExternals ==
    flag = "orphans" =>
        /\ Range(orphans) =
              {i \in NodeIndices :
                  /\ \A e \in graph.edges : e[1] # i
                  /\ ~IsExempt(graph, i)}
        /\ Len(orphans) = Cardinality(Range(orphans))
        /\ \A k \in DOMAIN orphans : ~IsSchema(graph.nodes[orphans[k]])

\* The query ran on a graph with a Schema node, which is the source of no
\* edge, and reported another node.
C10_Witness ==
    /\ flag = "orphans"
    /\ orphans # <<>>
    /\ \E i \in NodeIndices :
          /\ IsSchema(graph.nodes[i])
          /\ \A e \in graph.edges : e[1] # i
          /\ \E e \in graph.edges : e[2] = i

-----------------------------------------------------------------------------
(* The orphan law. *)

\* Some node lists a name that resolves to node i: i is the first node that
\* carries the name as its id.
IsNamedByANode(i) ==
    /\ \A h \in NodeIndices : h < i => IdOf(h) # IdOf(i)
    /\ \E j \in NodeIndices : IdOf(i) \in Range(DepsOf(j))

\* Node i is an extension and the definition it extends is a node.
ExtendsANode(i) ==
    /\ IsExtensionNode(i)
    /\ \E b \in NodeIndices :
          IsDefinitionNode(b) /\ graph.nodes[b].entity.name = graph.nodes[i].entity.name

-----------------------------------------------------------------------------
(* A second corpus: one file holding declarations of all fourteen kinds, the
   type-level directives included, built under a kind filter given on the
   command line. *)

MaxKindDecls == 2

\* The values FromStr for GraphQL accepts after --filter.
GraphQLKinds ==
    {[kind |-> "Directive", type |-> None], [kind |-> "Schema", type |-> None]} \cup
    {[kind |-> k, type |-> t] :
        k \in {"TypeDefinition", "TypeExtension"},
        t \in {"Enum", "InputObject", "Interface", "Object", "Scalar", "Union"}}

\* The filters tried: none, the object and input object definitions, the enum
\* definitions.
Filters ==
    {{},
     {[kind |-> "TypeDefinition", type |-> "Object"],
      [kind |-> "TypeDefinition", type |-> "InputObject"]},
     {[kind |-> "TypeDefinition", type |-> "Enum"]}}

PoolKinds ==
    {\* enum Color @test { RED @test }
     EnumType("Color", <<"test">>, <<EnumValue(<<"test">>)>>),
     \* input Filter @test { by: Color @test }
     InputObjectType("Filter", <<"test">>, <<InputValue(<<"test">>, NamedType("Color"))>>),
     \* interface Named @test { name: String }
     InterfaceType("Named", <<"test">>, <<Field(<<>>, <<>>, NamedType("String"))>>),
     \* type Query implements Named @test { colors(filter: Filter): Color }
     ObjectType("Query", <<"test">>,
                <<Field(<<InputValue(<<>>, NamedType("Filter"))>>, <<>>, NamedType("Color"))>>,
                <<"Named">>),
     \* scalar Date @test
     ScalarType("Date", <<"test">>),
     \* union Any @test = Query | ColorExt
     UnionType("Any", <<"test">>, <<"Query", "ColorExt">>),
     \* schema { mutation: Mutation }
     SchemaDefinition(None, "Mutation", None),
     \* directive @test(at: Date) on FIELD_DEFINITION
     DirectiveDefinition("test", <<InputValue(<<>>, NamedType("Date"))>>),
     \* extend enum Color @test { GREEN @test }
     Extend(EnumType("Color", <<"test">>, <<EnumValue(<<"test">>)>>)),
     \* extend input Filter { since: Date }
     Extend(InputObjectType("Filter", <<>>, <<InputValue(<<>>, NamedType("Date"))>>)),
     \* extend interface Named @test { id: ID }
     Extend(InterfaceType("Named", <<"test">>, <<Field(<<>>, <<>>, NamedType("ID"))>>)),
     \* extend type Query { today: Date }
     Extend(ObjectType("Query", <<>>, <<Field(<<>>, <<>>, NamedType("Date"))>>, <<>>)),
     \* extend scalar Date @test
     Extend(ScalarType("Date", <<"test">>)),
     \* extend union Any = Date
     Extend(UnionType("Any", <<>>, <<"Date">>)),
     \* input Where { and: Where, or: Where }
     InputObjectType("Where", <<>>, <<InputValue(<<>>, NamedType("Where")),
                                      InputValue(<<>>, NamedType("Where"))>>),
     \* extend input Where { not: Where }
     Extend(InputObjectType("Where", <<>>, <<InputValue(<<>>, NamedType("Where"))>>))}

KindsPath == "A.gql"

InitKinds ==
    /\ \E k \in 0..MaxKindDecls :
          \E ds \in [1..k -> PoolKinds] :
             files = Corpus(ds, [j \in 1..k |-> KindsPath], {})
    /\ filter \in Filters
    /\ pc = "collected"
    /\ todo_files = {}
    /\ graph = [nodes |-> <<>>, edges |-> {}]
    /\ dependency_hash_map = EmptyMap
    /\ todo_entries = {}
    /\ lookups = {}
    /\ missing_definitions = EmptyMap
    /\ result = "none"
    /\ flag = "none"
    /\ orphans = <<>>
    /\ schema_type = None
    /\ extracted = <<>>
    /\ walked = <<>>
    /\ disk = EmptyMap
    /\ opts_path = None
    /\ allowed_extensions = {}
    /\ stack = <<>>
    /\ lock = Unlocked
    /\ edge_count = EmptyMap
    /\ asked = NoQuery
    /\ printed = <<>>
    /\ calls = <<>>
    /\ returned = <<>>

SpecKinds == InitKinds /\ [][Next]_vars

-----------------------------------------------------------------------------
(* Properties of the orphan report and of the filter, over SpecKinds. *)

\* An object type definition that carries one of the three root names.
IsRootObject(i) ==
    /\ graph.nodes[i].entity.graphql = [kind |-> "TypeDefinition", type |-> "Object"]
    /\ graph.nodes[i].entity.name \in RootNames

\* C11: once the orphan report ran, an object type definition named Query,
\* Mutation or Subscription that is the source of no edge is left out of the
\* report exactly when the graph holds no Schema node; with a Schema node in
\* the graph it is reported.
C11_RootExemptionNeedsNoSchema ==
    flag = "orphans" =>
        \A i \in NodeIndices :
            (IsRootObject(i) /\ IsExternal(graph, i)) =>
                ((i \notin Range(orphans)) <=> ~HasSchema(graph))

\* A schema block that does not name Query stands next to an edge-less Query
\* object, and the report lists that object.
C11_Witness ==
    /\ flag = "orphans"
    /\ HasSchema(graph)
    /\ \E i \in NodeIndices :
          IsRootObject(i) /\ IsExternal(graph, i) /\ i \in Range(orphans)

\* The kind a declaration has in the grammar.
KindOf(d) ==
    CASE d.def = "SchemaDefinition" -> [kind |-> "Schema", type |-> None]
      [] d.def = "DirectiveDefinition" -> [kind |-> "Directive", type |-> None]
      [] OTHER -> [kind |-> d.def, type |-> d.type]

\* The declarations of the corpus the filter lets through.
DeclarationsInFilter == {x \in DeclarationsOfCorpus : KindOf(DefinitionAt(x)) \in filter}

\* C13: with a non-empty filter the built graph has no node of a kind absent
\* from the filter and as many nodes as the corpus has declarations of the
\* kinds in the filter; with an empty filter every declaration has a node.
C13_FilterLaw ==
    BuildOk =>
        IF filter # {}
        THEN /\ \A i \in NodeIndices : graph.nodes[i].entity.graphql \in filter
             /\ Len(graph.nodes) = Cardinality(DeclarationsInFilter)
        ELSE Len(graph.nodes) = Cardinality(DeclarationsOfCorpus)

\* C14: when a node the filter lets through lists the name of a declaration
\* of the corpus whose kind the filter excludes, the build makes no edge for
\* that name and, unless the name is a built-in scalar, records it in the
\* node's missing-definition list.
C14_FilteredNameIsMissing ==
    (BuildOk /\ filter # {}) =>
        \A i \in NodeIndices : graph.nodes[i].entity.graphql \in filter =>
            \A x \in DeclarationsOfCorpus \ DeclarationsInFilter :
                LET n == NodeId(DefinitionAt(x))
                IN  n \in Range(DepsOf(i)) =>
                       /\ ~ \E e \in graph.edges :
                             i \in {e[1], e[2]} /\ IdOf(e[1]) = n
                       /\ n \notin BuiltInScalars => n \in MissingOf(i)

-----------------------------------------------------------------------------
(* Declarations that do not reference one another. *)

\* The names an argument or input field mentions.
NamesOfInputValue(input_value) ==
    Range(input_value.directives) \cup {walk_field_type(input_value.value_type)}

\* The names a field mentions.
NamesOfField(field) ==
    UNION {NamesOfInputValue(field.arguments[k]) : k \in DOMAIN field.arguments}
        \cup Range(field.directives) \cup {walk_field_type(field.field_type)}

\* Every name the text of a declaration mentions besides the one it declares;
\* an extension mentions the name of the definition it extends.
Mentions(d) ==
    Range(d.directives)
        \cup (IF d.type \in {"Object", "Interface"}
              THEN UNION {NamesOfField(d.fields[k]) : k \in DOMAIN d.fields}
              ELSE UNION {NamesOfInputValue(d.fields[k]) : k \in DOMAIN d.fields})
        \cup UNION {Range(d.values[k].directives) : k \in DOMAIN d.values}
        \cup Range(d.implements_interfaces)
        \cup Range(d.types)
        \cup ({d.query, d.mutation, d.subscription} \ {None})
        \cup (IF d.def = "TypeExtension" THEN {d.name} ELSE {})

\* Declaration b references declaration a: a declares a name (a type or a
\* directive definition; an extension or a schema block declares none) and b
\* mentions it.
References(b, a) ==
    /\ a.def \in {"TypeDefinition", "DirectiveDefinition"}
    /\ a.name \in Mentions(b)

\* No declaration of the corpus references another one or itself.
NonReferencing ==
    \A x \in DeclarationsOfCorpus, y \in DeclarationsOfCorpus :
        ~References(DefinitionAt(x), DefinitionAt(y))

\* C15: for a corpus of N declarations none of which references another
\* declaration of the corpus or itself, built with an empty filter, the graph
\* has exactly N nodes and no edge, whatever the kinds of the declarations.
C15_NonReferencingHasNoEdge ==
    (BuildOk /\ filter = {} /\ AllParse /\ NonReferencing) =>
        /\ Len(graph.nodes) = Cardinality(DeclarationsOfCorpus)
        /\ graph.edges = {}

-----------------------------------------------------------------------------
(* src/src/extend_types.rs: ExtendType::get_dependencies. *)

\* The characters of a GraphQL name ([_0-9A-Za-z]) in the order of their codes.
Ascii == "0123456789ABCDEFGHIJKLMNOPQRSTUVWXYZ_abcdefghijklmnopqrstuvwxyz"

Upper == "ABCDEFGHIJKLMNOPQRSTUVWXYZ"

Lower == "abcdefghijklmnopqrstuvwxyz"

\* The place of the character c in str, 0 when it is not there.
IndexIn(c, str) ==
    IF \E i \in 1..Len(str) : SubSeq(str, i, i) = c
    THEN CHOOSE i \in 1..Len(str) : SubSeq(str, i, i) = c
    ELSE 0

Chars == {SubSeq(Ascii, i, i) : i \in 1..Len(Ascii)}

\* The code order of the characters.
CharCode == [c \in Chars |-> IndexIn(c, Ascii)]

\* char::to_lowercase on the characters of a name.
CharToLower ==
    [c \in Chars |->
        LET i == IndexIn(c, Upper)
        IN  IF i = 0 THEN c ELSE SubSeq(Lower, i, i)]

\* str::to_lowercase on a name.
RECURSIVE to_lowercase(_)
to_lowercase(s) ==
    IF s = "" THEN ""
    ELSE CharToLower[SubSeq(s, 1, 1)] \o to_lowercase(SubSeq(s, 2, Len(s)))

\* Ord for String: a < b, byte by byte, a proper prefix first.
RECURSIVE StringLess(_, _)
StringLess(a, b) ==
    IF b = "" THEN FALSE
    ELSE IF a = "" THEN TRUE
    ELSE LET x == CharCode[SubSeq(a, 1, 1)]
             y == CharCode[SubSeq(b, 1, 1)]
         IN  x < y \/ (x = y /\ StringLess(SubSeq(a, 2, Len(a)), SubSeq(b, 2, Len(b))))

\* The name put in front of the names that have its key.
RECURSIVE InsertByKeyBefore(_, _)
InsertByKeyBefore(sorted, a) ==
    IF sorted = <<>> THEN <<a>>
    ELSE IF ~StringLess(to_lowercase(Head(sorted)), to_lowercase(a))
         THEN <<a>> \o sorted
         ELSE <<Head(sorted)>> \o InsertByKeyBefore(Tail(sorted), a)

\* One step of the stable sort: a goes behind every name whose key is not
\* greater than its own.
RECURSIVE InsertByKey(_, _)
InsertByKey(sorted, a) ==
    IF sorted = <<>> THEN <<a>>
    ELSE IF StringLess(to_lowercase(a), to_lowercase(Head(sorted)))
         THEN <<a>> \o sorted
         ELSE <<Head(sorted)>> \o InsertByKey(Tail(sorted), a)

RECURSIVE SortInto(_, _)
SortInto(sorted, rest) ==
    IF rest = <<>> THEN sorted
    ELSE SortInto(InsertByKey(sorted, Head(rest)), Tail(rest))

\* The first occurrence of each name.
RECURSIVE Dedup(_)
Dedup(names) ==
    IF names = <<>> THEN <<>>
    ELSE <<Head(names)>> \o Dedup(SelectSeq(Tail(names), LAMBDA x : x # Head(names)))

\* The names sorted and each name kept once.
sort_dependencies_dedup(dependencies) == Dedup(SortInto(<<>>, dependencies))

\* dependencies.sort_by_key(|a| a.to_lowercase()): a stable sort.
sort_dependencies(dependencies) == SortInto(<<>>, dependencies)

\* The chain each arm of get_dependencies collects before it is sorted.
Chained(d) ==
    CASE d.def = "TypeDefinition" /\ d.type = "Enum" ->
            d.directives \o Flatten([i \in DOMAIN d.values |-> d.values[i].directives])
      [] d.def = "TypeDefinition" /\ d.type = "Scalar" ->
            d.directives
      [] d.def = "TypeDefinition" /\ d.type = "Object" ->
            WalkFields(d.fields) \o d.directives \o d.implements_interfaces
      [] d.def = "TypeDefinition" /\ d.type = "Interface" ->
            WalkFields(d.fields) \o d.directives
      [] d.def = "TypeDefinition" /\ d.type = "Union" ->
            d.types \o d.directives
      [] d.def = "TypeDefinition" /\ d.type = "InputObject" ->
            WalkInputValues(d.fields) \o d.directives \o <<d.name>>
      [] d.def = "TypeExtension" /\ d.type = "Enum" ->
            d.directives \o Flatten([i \in DOMAIN d.values |-> d.values[i].directives])
                \o <<d.name>>
      [] d.def = "TypeExtension" /\ d.type = "Scalar" ->
            d.directives \o <<d.name>>
      [] d.def = "TypeExtension" /\ d.type = "Object" ->
            WalkFields(d.fields) \o d.directives \o d.implements_interfaces \o <<d.name>>
      [] d.def = "TypeExtension" /\ d.type = "Interface" ->
            WalkFields(d.fields) \o d.directives \o <<d.name>>
      [] d.def = "TypeExtension" /\ d.type = "Union" ->
            d.types \o d.directives \o <<d.name>>
      [] d.def = "TypeExtension" /\ d.type = "InputObject" ->
            WalkInputValues(d.fields) \o d.directives \o <<d.name>>
      [] d.def = "SchemaDefinition" ->
            FilterSome(<<d.query, d.mutation, d.subscription>>)
      [] d.def = "DirectiveDefinition" ->
            WalkInputValues(d.fields)

get_dependencies(d) == sort_dependencies(Chained(d))

-----------------------------------------------------------------------------
(* The declarations handed to the extractors. *)

MaxDirectives == 2

TypeNames == {"Foo", "foo", "ID"}

DirectiveNames == {"test", "deprecated"}

OwnNames == {"Foo", "bar"}

\* The directive lists of a declaration: up to MaxDirectives names.
DirectiveLists == UNION {[1..n -> DirectiveNames] : n \in 0..MaxDirectives}

\* The directive lists of a field, an input field or an enum value.
InnerDirectiveLists == {<<>>, <<"deprecated">>}

TypePool ==
    {NamedType("Foo"), NonNullType(NamedType("ID")), ListType(NonNullType(NamedType("foo")))}

ArgumentLists ==
    {<<>>,
     <<InputValue(<<>>, NonNullType(NamedType("ID")))>>,
     <<InputValue(<<"test">>, NamedType("foo"))>>}

FieldLists ==
    {<<>>} \cup
    {<<Field(arguments, directives, field_type)>> :
        arguments \in ArgumentLists, directives \in InnerDirectiveLists, field_type \in TypePool}

InputValueLists ==
    {<<>>} \cup
    {<<InputValue(directives, value_type)>> :
        directives \in InnerDirectiveLists, value_type \in TypePool}

EnumValueLists ==
    {<<>>, <<EnumValue(<<>>)>>, <<EnumValue(<<"deprecated">>)>>,
     <<EnumValue(<<"test">>), EnumValue(<<"deprecated">>)>>}

NameLists == {<<>>, <<"foo", "Foo">>} \cup {<<name>> : name \in TypeNames}

RootPool == {None, "Query", "foo"}

TypeDefinitions ==
    {ObjectType(name, directives, fields, interfaces) :
        name \in OwnNames, directives \in DirectiveLists, fields \in FieldLists,
        interfaces \in NameLists}
    \cup {InterfaceType(name, directives, fields) :
            name \in OwnNames, directives \in DirectiveLists, fields \in FieldLists}
    \cup {InputObjectType(name, directives, fields) :
            name \in OwnNames, directives \in DirectiveLists, fields \in InputValueLists}
    \cup {EnumType(name, directives, values) :
            name \in OwnNames, directives \in DirectiveLists, values \in EnumValueLists}
    \cup {ScalarType(name, directives) : name \in OwnNames, directives \in DirectiveLists}
    \cup {UnionType(name, directives, types) :
            name \in OwnNames, directives \in DirectiveLists, types \in NameLists}

SchemaTypes ==
    TypeDefinitions
    \cup {Extend(d) : d \in TypeDefinitions}
    \cup {SchemaDefinition(query, mutation, subscription) :
            query \in RootPool, mutation \in RootPool, subscription \in RootPool}
    \cup {DirectiveDefinition(name, arguments) :
            name \in OwnNames, arguments \in InputValueLists}

InitExtract ==
    /\ schema_type \in SchemaTypes
    /\ extracted = <<>>
    /\ walked = <<>>
    /\ files = EmptyMap
    /\ pc = "extract"
    /\ todo_files = {}
    /\ graph = [nodes |-> <<>>, edges |-> {}]
    /\ dependency_hash_map = EmptyMap
    /\ todo_entries = {}
    /\ lookups = {}
    /\ missing_definitions = EmptyMap
    /\ result = "none"
    /\ flag = "none"
    /\ orphans = <<>>
    /\ filter = {}
    /\ disk = EmptyMap
    /\ opts_path = None
    /\ allowed_extensions = {}
    /\ stack = <<>>
    /\ lock = Unlocked
    /\ edge_count = EmptyMap
    /\ asked = NoQuery
    /\ printed = <<>>
    /\ calls = <<>>
    /\ returned = <<>>

build == <<files, pc, todo_files, graph, dependency_hash_map, todo_entries,
           lookups, missing_definitions, result, flag, orphans, filter,
           disk, opts_path, allowed_extensions, stack, lock, edge_count, asked,
           printed, calls, returned>>

\* schema_type.get_dependencies()
GetDependencies ==
    /\ pc = "extract"
    /\ extracted = <<>>
    /\ extracted' = <<get_dependencies(schema_type)>>
    /\ UNCHANGED <<build, schema_type, walked>>

\* The arm of the match in populate_graph_from_ast that takes schema_type.
WalkDefinition ==
    /\ pc = "extract"
    /\ walked = <<>>
    /\ walked' = <<Dependencies(schema_type)>>
    /\ UNCHANGED <<build, schema_type, extracted>>

NextExtract ==
    \/ GetDependencies
    \/ WalkDefinition

SpecExtract == InitExtract /\ [][NextExtract]_vars

-----------------------------------------------------------------------------
(* Properties of the dependency lists, over SpecExtract. *)

\* How often the name x stands in the list s.
Count(s, x) == Cardinality({i \in DOMAIN s : s[i] = x})

\* The two lists hold the same names, each as often in one as in the other.
SamePopulation(s, t) ==
    /\ Len(s) = Len(t)
    /\ \A x \in Range(s) \cup Range(t) : Count(s, x) = Count(t, x)

\* No name of the list stands before a name with a smaller lower-cased form.
AscendingByLowerCase(s) ==
    \A i \in 1..(Len(s) - 1) : ~StringLess(to_lowercase(s[i + 1]), to_lowercase(s[i]))

\* The names of one lower-cased form stand in s in the order they have in t.
KeepsOrderOfEqualKeys(s, t) ==
    LET sk == [i \in DOMAIN s |-> [name |-> s[i], key |-> to_lowercase(s[i])]]
        tk == [i \in DOMAIN t |-> [name |-> t[i], key |-> to_lowercase(t[i])]]
    IN  \A x \in Range(sk) \cup Range(tk) :
            SelectSeq(sk, LAMBDA y : y.key = x.key) = SelectSeq(tk, LAMBDA y : y.key = x.key)

IsObjectDefinition(d) == d.def = "TypeDefinition" /\ d.type = "Object"

\* The names of an object type definition in the order of its text: per
\* field the argument types, the field's directives and the field's type,
\* then the type's own directives, then the interfaces it implements.
ObjectExtraction(d) ==
    Flatten([k \in DOMAIN d.fields |->
                [a \in DOMAIN d.fields[k].arguments |->
                    walk_field_type(d.fields[k].arguments[a].value_type)]
                \o d.fields[k].directives
                \o <<walk_field_type(d.fields[k].field_type)>>])
        \o d.directives \o d.implements_interfaces

\* C16 as stated: the list get_dependencies returns for an object type
\* definition is the names in extraction order, duplicates kept, neither
\* sorted nor deduplicated.
C16_ExtractionOrderKept ==
    (extracted # <<>> /\ IsObjectDefinition(schema_type)) =>
        extracted[1] = ObjectExtraction(schema_type)

\* C16 amended: the list get_dependencies returns for an object type
\* definition holds every extracted name as often as it was extracted, no
\* name dropped or merged, in ascending order of the lower-cased names.
C16_DuplicatesKeptOrderByKey ==
    (extracted # <<>> /\ IsObjectDefinition(schema_type)) =>
        /\ SamePopulation(extracted[1], ObjectExtraction(schema_type))
        /\ AscendingByLowerCase(extracted[1])

\* An object type definition that names one type twice got its list, and the
\* list is not in the order of the text.
C16_Witness ==
    /\ extracted # <<>>
    /\ IsObjectDefinition(schema_type)
    /\ \E x \in Range(extracted[1]) : Count(extracted[1], x) = 2
    /\ extracted[1] # ObjectExtraction(schema_type)

\* C17: for a declaration of any kind get_dependencies returns the names it
\* collected in ascending order of their lower-cased forms, names of equal
\* lower-cased form in the order they were collected, and as many names as
\* were collected.
C17_SortedStably ==
    extracted # <<>> =>
        /\ AscendingByLowerCase(extracted[1])
        /\ KeepsOrderOfEqualKeys(extracted[1], Chained(schema_type))
        /\ Len(extracted[1]) = Len(Chained(schema_type))

\* The list holds foo before Foo, as collected, and a name twice, and the
\* collected order was not the sorted one.
C17_Witness ==
    /\ extracted # <<>>
    /\ \E i \in 1..(Len(extracted[1]) - 1) :
          extracted[1][i] = "foo" /\ extracted[1][i + 1] = "Foo"
    /\ \E x \in Range(extracted[1]) : Count(extracted[1], x) = 2
    /\ extracted[1] # Chained(schema_type)

\* The definition an extension has the body of.
BaseOf(d) == [d EXCEPT !.def = "TypeDefinition"]

\* The list e holds what the list b holds and the name once more.
PlusOwnName(e, b, name) ==
    \A x \in Range(e) \cup Range(b) \cup {name} :
        Count(e, x) = Count(b, x) + (IF x = name THEN 1 ELSE 0)

\* C18: for an extension of each of the six kinds the dependency list holds
\* what the list of the definition with the same body holds, and the
\* extension's own name exactly once more; so an enum extension's list holds
\* the directives on the enum and on its values.
C18_ExtensionIsDefinitionPlusName ==
    (pc = "extract" /\ schema_type.def = "TypeExtension") =>
        /\ extracted # <<>> =>
              PlusOwnName(extracted[1], get_dependencies(BaseOf(schema_type)),
                          schema_type.name)
        /\ walked # <<>> =>
              PlusOwnName(walked[1], Dependencies(BaseOf(schema_type)), schema_type.name)

IsInputObjectDefinition(d) == d.def = "TypeDefinition" /\ d.type = "InputObject"

\* The names of an input object definition: per input field its directives
\* and its unwrapped type, then the type's own directives.
InputObjectExtraction(d) ==
    Flatten([k \in DOMAIN d.fields |->
                d.fields[k].directives \o <<walk_field_type(d.fields[k].value_type)>>])
        \o d.directives

\* C19: the dependency list of an input object definition holds, per input
\* field, the field's directives and its unwrapped type, then the type's own
\* directives, and nothing else: the definition's own name is not added.
C19_InputObjectWithoutOwnName ==
    (pc = "extract" /\ IsInputObjectDefinition(schema_type)) =>
        /\ extracted # <<>> =>
              SamePopulation(extracted[1], InputObjectExtraction(schema_type))
        /\ walked # <<>> => walked[1] = InputObjectExtraction(schema_type)

-----------------------------------------------------------------------------
(* get_files (src/src/utils.rs): the walk over the file system. *)

\* The place of the last character c in s, 0 when s has none.
LastIndexOf(s, c) ==
    IF \E i \in 1..Len(s) : SubSeq(s, i, i) = c
    THEN CHOOSE i \in 1..Len(s) :
            /\ SubSeq(s, i, i) = c
            /\ \A j \in (i + 1)..Len(s) : SubSeq(s, j, j) # c
    ELSE 0

\* Path::file_name: what follows the last separator.
file_name(p) == SubSeq(p, LastIndexOf(p, "/") + 1, Len(p))

\* Path::parent: what precedes the last separator.
parent(p) == SubSeq(p, 1, LastIndexOf(p, "/") - 1)

\* Path::extension: what follows the last dot of the file name; None when
\* the name has no dot or only a leading one.
extension(p) ==
    LET name == file_name(p)
        dot == LastIndexOf(name, ".")
    IN  IF dot <= 1 THEN None ELSE SubSeq(name, dot + 1, Len(name))

is_extension_allowed(ext) == ext \in allowed_extensions

\* fs::read_dir(p): the paths of the entries of the directory.
read_dir(p) == {q \in DOMAIN disk : LastIndexOf(q, "/") > 0 /\ parent(q) = p}

\* data.files.insert(path, contents)
Insert(fs, p, contents) ==
    [q \in DOMAIN fs \cup {p} |-> IF q = p THEN contents ELSE fs[q]]

\* A call that leaves every directory unread.
CallWithoutReadDir(p, fs, iterators) ==
    IF p \notin DOMAIN disk
    THEN [outcome |-> "Err", files |-> fs, stack |-> iterators]
    ELSE IF disk[p].is_dir
    THEN [outcome |-> "Ok", files |-> fs, stack |-> iterators]
    ELSE IF extension(p) = None
    THEN [outcome |-> "panic", files |-> fs, stack |-> iterators]
    ELSE IF ~is_extension_allowed(extension(p))
    THEN [outcome |-> "Ok", files |-> fs, stack |-> iterators]
    ELSE IF ~disk[p].utf8
    THEN [outcome |-> "Err", files |-> fs, stack |-> iterators]
    ELSE [outcome |-> "Ok", files |-> Insert(fs, p, disk[p].contents), stack |-> iterators]

\* get_files(p, ..) up to its loop: fs::metadata fails on a path that does
\* not exist; a file without extension makes extension().unwrap() panic; a
\* file with an allowed extension is read (read_to_string fails on text that
\* is not UTF-8) and inserted; any other file returns Ok; a directory is
\* opened with read_dir.
Call(p, fs, iterators) ==
    IF p \notin DOMAIN disk
    THEN [outcome |-> "Err", files |-> fs, stack |-> iterators]
    ELSE IF disk[p].is_dir
    THEN [outcome |-> "dir", files |-> fs,
          stack |-> <<[dir |-> p, entries |-> read_dir(p)]>> \o iterators]
    ELSE IF extension(p) = None
    THEN [outcome |-> "panic", files |-> fs, stack |-> iterators]
    ELSE IF ~is_extension_allowed(extension(p))
    THEN [outcome |-> "Ok", files |-> fs, stack |-> iterators]
    ELSE IF ~disk[p].utf8
    THEN [outcome |-> "Err", files |-> fs, stack |-> iterators]
    ELSE [outcome |-> "Ok", files |-> Insert(fs, p, disk[p].contents), stack |-> iterators]

\* One turn of `while let Some(res) = dir.next().await` on the entry
\* inner_path, the other iterators being `iterators`.
Turn(inner_path, fs, iterators) ==
    IF ~disk[inner_path].is_dir /\ extension(inner_path) = None
    THEN [outcome |-> "panic", files |-> fs, stack |-> iterators]
    ELSE IF ~disk[inner_path].is_dir /\ is_extension_allowed(extension(inner_path))
    THEN IF disk[inner_path].utf8
         THEN [outcome |-> "Ok", stack |-> iterators,
               files |-> Insert(fs, inner_path, disk[inner_path].contents)]
         ELSE [outcome |-> "Err", files |-> fs, stack |-> iterators]
    ELSE Call(inner_path, fs, iterators)

\* Where main stands after a step of get_files with that outcome: Err and
\* the panic end the program, Ok of the outermost call lets main go on to
\* the build.
Outcome(r) ==
    /\ files' = r.files
    /\ stack' = r.stack
    /\ pc' = IF r.outcome \in {"Err", "panic"} THEN "exit"
             ELSE IF r.stack = <<>> THEN "collected"
             ELSE "get_files"
    /\ result' = IF r.outcome \in {"Err", "panic"} THEN r.outcome ELSE result
    /\ lock' = IF r.files # files THEN Release(Cover(Acquire, 1)) ELSE lock
    /\ UNCHANGED <<todo_files, graph, dependency_hash_map, todo_entries, lookups,
                   missing_definitions, flag, orphans, filter, schema_type, extracted,
                   walked, disk, opts_path, allowed_extensions, edge_count, asked,
                   printed, calls, returned>>

\* get_files(opts.path, shared_data.files).await?
GetFiles ==
    /\ pc = "main"
    /\ Outcome(Call(opts_path, files, <<>>))

\* dir.next() gives an entry of the directory read last.
NextEntry ==
    /\ pc = "get_files"
    /\ \E inner_path \in Head(stack).entries :
          Outcome(Turn(inner_path, files,
                       <<[Head(stack) EXCEPT !.entries = @ \ {inner_path}]>> \o Tail(stack)))

\* dir.next() gives None: the call returns Ok(()) to the call that made it.
Return ==
    /\ pc = "get_files"
    /\ Head(stack).entries = {}
    /\ Outcome([outcome |-> "Ok", files |-> files, stack |-> Tail(stack)])

NextFiles ==
    \/ GetFiles
    \/ NextEntry
    \/ Return

-----------------------------------------------------------------------------
(* The file systems get_files is run on. *)

Directory == [is_dir |-> TRUE, utf8 |-> TRUE, contents |-> Parsed(<<>>)]

\* A file whose text is a schema document with these definitions.
File(definitions) == [is_dir |-> FALSE, utf8 |-> TRUE, contents |-> Parsed(definitions)]

\* A file whose text is no schema document.
Prose == [is_dir |-> FALSE, utf8 |-> TRUE, contents |-> ParseError]

\* A file whose bytes are not UTF-8.
Binary == [is_dir |-> FALSE, utf8 |-> FALSE, contents |-> ParseError]

\* Every path a file system may hold, with what is there.
Fixtures ==
    ("fx" :> Directory)
    \* type A { d: D, c: [C] }
    @@ ("fx/a.gql" :> File(<<ObjectType("A", <<>>,
                                <<Field(<<>>, <<>>, NamedType("D")),
                                  Field(<<>>, <<>>, ListType(NamedType("C")))>>, <<>>)>>))
    @@ ("fx/b.txt" :> Prose)
    @@ ("fx/LICENSE" :> Prose)
    @@ ("fx/Types" :> Directory)
    \* scalar C
    @@ ("fx/Types/c.graphql" :> File(<<ScalarType("C", <<>>)>>))
    @@ ("fx/Types/old.gql" :> Directory)
    \* union D = A | A
    @@ ("fx/Types/old.gql/d.gql" :> File(<<UnionType("D", <<>>, <<"A", "A">>)>>))

\* The path that may hold bytes that are no text.
MaybeBinary == "fx/Types/c.graphql"

\* The file systems: fx, and any of the other paths whose parent is there.
Disks ==
    {[p \in present |-> IF p = MaybeBinary /\ binary THEN Binary ELSE Fixtures[p]] :
        present \in {ps \in SUBSET DOMAIN Fixtures :
                        /\ "fx" \in ps
                        /\ \A p \in ps \ {"fx"} : parent(p) \in ps},
        binary \in BOOLEAN}

OptsPaths == {"fx", "fx/Types", "fx/a.gql", "fx/LICENSE", "missing"}

AllowLists == {{"gql"}, {"graphql"}, {"gql", "graphql"}, {"gql", "txt"}}

InitFiles ==
    /\ disk \in Disks
    /\ opts_path \in OptsPaths
    /\ allowed_extensions \in AllowLists
    /\ stack = <<>>
    /\ lock = Unlocked
    /\ edge_count = EmptyMap
    /\ asked = NoQuery
    /\ printed = <<>>
    /\ calls = <<>>
    /\ returned = <<>>
    /\ files = EmptyMap
    /\ pc = "main"
    /\ todo_files = {}
    /\ graph = [nodes |-> <<>>, edges |-> {}]
    /\ dependency_hash_map = EmptyMap
    /\ todo_entries = {}
    /\ lookups = {}
    /\ missing_definitions = EmptyMap
    /\ result = "none"
    /\ flag = "none"
    /\ orphans = <<>>
    /\ filter = {}
    /\ schema_type = None
    /\ extracted = <<>>
    /\ walked = <<>>

SpecFiles == InitFiles /\ [][NextFiles]_vars

-----------------------------------------------------------------------------
(* The file map get_files leaves, over SpecFiles. *)

\* The path p is root or lies below it, at any depth.
RECURSIVE IsWithin(_, _)
IsWithin(p, root) ==
    \/ p = root
    \/ LastIndexOf(p, "/") > 0 /\ IsWithin(parent(p), root)

\* The regular files at or below root whose extension is in the allow-list.
AllowedFilesWithin(root) ==
    {p \in DOMAIN disk :
        /\ IsWithin(p, root)
        /\ ~disk[p].is_dir
        /\ extension(p) # None
        /\ extension(p) \in allowed_extensions}

\* C20: once get_files(path) returned Ok, the file map has an entry for
\* every regular file at or below path, at any depth, whose extension is in
\* the allow-list, under the file's path and holding the file's whole text,
\* and no entry for any other path.
C20_FileMapIsTheAllowedFiles ==
    (opts_path # None /\ pc = "collected") =>
        /\ DOMAIN files = AllowedFilesWithin(opts_path)
        /\ \A p \in DOMAIN files : files[p] = disk[p].contents

\* get_files("fx") returned Ok with the file three directories deep and the
\* one at the top in the map, and fx/b.txt, which is on the disk, not in it.
C20_Witness ==
    /\ pc = "collected"
    /\ opts_path = "fx"
    /\ {"fx/a.gql", "fx/Types/old.gql/d.gql"} \subseteq DOMAIN files
    /\ "fx/b.txt" \in DOMAIN disk \ DOMAIN files

-----------------------------------------------------------------------------
(* The kind tag and the type-level directives, over SpecKinds: the corpus is
   one file, so node i was made from the i-th definition of that file. *)

\* The declaration node i was created from.
DeclarationOf(i) == files[graph.nodes[i].entity.path].definitions[i]

\* C23: the kind tag stored on each node is the kind of the declaration it
\* was created from, for all fourteen kinds; the node of an interface
\* extension is tagged as an Interface extension.
C23_KindTagIsDeclarationKind ==
    BuildOk =>
        \A i \in NodeIndices :
            graph.nodes[i].entity.graphql = KindOf(DeclarationOf(i))

\* C24: for every type definition and type extension, each directive applied
\* to the declaration itself is in the node's dependency list and in the
\* dependency index, and when a node carries the directive's name as its id
\* the build makes the edge from the first such node to the user.
C24_TypeLevelDirectiveIsDependency ==
    BuildOk =>
        \A i \in NodeIndices :
            LET d == DeclarationOf(i)
            IN  d.def \in {"TypeDefinition", "TypeExtension"} =>
                   \A n \in Range(d.directives) :
                      /\ n \in Range(DepsOf(i))
                      /\ i \in DOMAIN dependency_hash_map
                      /\ n \in Range(dependency_hash_map[i])
                      /\ FindIndex(graph.nodes, n) # 0 =>
                            <<FindIndex(graph.nodes, n), i>> \in graph.edges

-----------------------------------------------------------------------------
(* The edge list, over SpecKinds. *)

\* Node i lists a name more than once and the name resolves to a node.
ListsResolvedNameTwice(i) ==
    \E n \in Range(DepsOf(i)) :
        Count(DepsOf(i), n) > 1 /\ FindIndex(graph.nodes, n) # 0

\* C26: the graph has at most one edge for any ordered pair of nodes, at
\* every point of the build and after it; a name that stands several times
\* in a node's dependency list gives one edge, whether the node is an
\* extension or not.
C26_AtMostOneEdgePerPair ==
    /\ \A e \in DOMAIN edge_count : edge_count[e] = 1
    /\ DOMAIN edge_count = graph.edges

\* The build finished on a definition and an extension that each list a
\* resolved name twice, and each is the target of an edge.
C26_Witness ==
    /\ BuildOk
    /\ \E i, j \in NodeIndices :
          /\ IsDefinitionNode(i) /\ ListsResolvedNameTwice(i)
          /\ IsExtensionNode(j) /\ ListsResolvedNameTwice(j)
          /\ \E e \in DOMAIN edge_count : e[2] = i
          /\ \E e \in DOMAIN edge_count : e[2] = j

-----------------------------------------------------------------------------
(* The missing-definition lists, over Spec. *)

\* C27: after a successful build a node's missing-definition list holds an
\* unresolved name that is no built-in scalar once per occurrence of the
\* name in the node's dependency list, and the missing-definition index has
\* an entry for a node only when that list is not empty.
C27_MissingKeepsOccurrences ==
    BuildOk =>
        /\ \A x \in NodeIndices :
              \A n \in Range(DepsOf(x)) :
                 (FindIndex(graph.nodes, n) = 0 /\ n \notin BuiltInScalars) =>
                    /\ x \in DOMAIN missing_definitions
                    /\ Count(missing_definitions[x], n) = Count(DepsOf(x), n)
        /\ \A x \in DOMAIN missing_definitions : missing_definitions[x] # <<>>

-----------------------------------------------------------------------------
(* Files without an extension, over SpecFiles. *)

\* C30: get_files never aborts because of a file's name: a regular file
\* without extension, given as the path or met as a directory entry, is
\* skipped like a file with a disallowed extension.
C30_ExtensionlessFileIsSkipped ==
    opts_path # None => result # "panic"

-----------------------------------------------------------------------------
(* walk_field_type (src/src/utils.rs, src/src/extend_types.rs) call by call:
   walk_field hands it the type of its field, each wrapper arm calls it
   again on what the wrapper boxes, and each call returns to its caller. *)

\* Most wrappers around a named type.
MaxNesting == 3

Wrappers == {"ListType", "NonNullType"}

WrappedNames == {"Foo", "ID"}

\* The type `name` under the wrappers `layers`, the outermost first.
RECURSIVE Wrap(_, _)
Wrap(name, layers) ==
    IF layers = <<>> THEN NamedType(name)
    ELSE IF Head(layers) = "ListType" THEN ListType(Wrap(name, Tail(layers)))
    ELSE NonNullType(Wrap(name, Tail(layers)))

Layers == UNION {[1..k -> Wrappers] : k \in 0..MaxNesting}

TypeExpressions == {Wrap(name, layers) : name \in WrappedNames, layers \in Layers}

\* The match with a ListType arm that names what the list boxes without
\* walking it.
walk_field_type_arm_shallow(field_type) ==
    CASE field_type.t = "NamedType" -> [call |-> FALSE, name |-> field_type.name, of |-> None]
      [] field_type.t = "ListType" -> [call |-> FALSE, name |-> field_type.of.name, of |-> None]
      [] field_type.t = "NonNullType" -> [call |-> TRUE, name |-> None, of |-> field_type.of]

\* `match field_type`: the NamedType arm returns the name, the two wrapper
\* arms call walk_field_type(field_type.as_ref()).
walk_field_type_arm(field_type) ==
    CASE field_type.t = "NamedType" -> [call |-> FALSE, name |-> field_type.name, of |-> None]
      [] field_type.t = "ListType" -> [call |-> TRUE, name |-> None, of |-> field_type.of]
      [] field_type.t = "NonNullType" -> [call |-> TRUE, name |-> None, of |-> field_type.of]

\* walk_field is running on a field of some type; `calls` holds the frames,
\* the innermost first, and the frame of walk_field last.
InitTypes ==
    /\ calls \in {<<ty>> : ty \in TypeExpressions}
    /\ returned = <<>>
    /\ pc = "walk_field"
    /\ files = EmptyMap
    /\ todo_files = {}
    /\ graph = [nodes |-> <<>>, edges |-> {}]
    /\ dependency_hash_map = EmptyMap
    /\ todo_entries = {}
    /\ lookups = {}
    /\ missing_definitions = EmptyMap
    /\ result = "none"
    /\ flag = "none"
    /\ orphans = <<>>
    /\ filter = {}
    /\ schema_type = None
    /\ extracted = <<>>
    /\ walked = <<>>
    /\ disk = EmptyMap
    /\ opts_path = None
    /\ allowed_extensions = {}
    /\ stack = <<>>
    /\ lock = Unlocked
    /\ edge_count = EmptyMap
    /\ asked = NoQuery
    /\ printed = <<>>

\* What a step of the walk leaves alone.
besides == <<files, todo_files, graph, dependency_hash_map, todo_entries, lookups,
             missing_definitions, result, flag, orphans, filter, schema_type, extracted,
             walked, disk, opts_path, allowed_extensions, stack, lock, edge_count, asked,
             printed>>

\* walk_field: walk_field_type(&field.field_type)
WalkField ==
    /\ pc = "walk_field"
    /\ calls' = <<Head(calls)>> \o calls
    /\ pc' = "walk_field_type"
    /\ UNCHANGED <<besides, returned>>

\* A wrapper arm: the call on what the wrapper boxes.
Unbox ==
    /\ pc = "walk_field_type"
    /\ walk_field_type_arm(Head(calls)).call
    /\ calls' = <<walk_field_type_arm(Head(calls)).of>> \o calls
    /\ UNCHANGED <<besides, pc, returned>>

\* The NamedType arm: name.clone() is the value of the call.
ReturnName ==
    /\ pc = "walk_field_type"
    /\ ~walk_field_type_arm(Head(calls)).call
    /\ returned' = <<walk_field_type_arm(Head(calls)).name>>
    /\ pc' = "return"
    /\ UNCHANGED <<besides, calls>>

\* The value is the value of the calling arm as well; the last return
\* gives it to walk_field.
ReturnToCaller ==
    /\ pc = "return"
    /\ calls' = Tail(calls)
    /\ pc' = IF Len(calls) = 2 THEN "exit" ELSE "return"
    /\ UNCHANGED <<besides, returned>>

NextTypes ==
    \/ WalkField
    \/ Unbox
    \/ ReturnName
    \/ ReturnToCaller

\* Every call that can take a step takes it.
SpecTypes == InitTypes /\ [][NextTypes]_vars /\ WF_vars(NextTypes)

\* The name n such that ty is NamedType(n) under some wrappers.
InnermostName(ty) ==
    CHOOSE name \in WrappedNames : \E layers \in Layers : ty = Wrap(name, layers)

\* C25: walk_field_type terminates for every type expression and returns the
\* name of the innermost named type, whatever list and non-null wrappers
\* stand around it and in whatever order; the wrappers add no name, so that
\* walk_field gives that one name for a field without arguments and
\* directives.
C25_WalkFieldTypeReturnsInnermost ==
    /\ <>(pc = "exit")
    /\ [](pc = "exit" =>
            /\ returned = <<InnermostName(Head(calls))>>
            /\ returned = <<walk_field_type(Head(calls))>>
            /\ walk_field(Field(<<>>, <<>>, Head(calls))) = returned)

\* The walk of [[Foo]!]! returned Foo to walk_field.
C25_Witness ==
    /\ pc = "exit"
    /\ calls = <<NonNullType(ListType(NonNullType(NamedType("Foo"))))>>
    /\ returned = <<"Foo">>

-----------------------------------------------------------------------------
(* main from get_files to the query (src/src/bin.rs): the file map
   get_files leaves is the one the build reads, and the node queries run on
   the graph the build leaves. *)

\* Most ids given with the multiple-nodes flag.
MaxNodes == 2

\* The ids asked for: of declarations of the fixtures, one of them in
\* another case, and one no fixture declares.
AskedIds == {"A", "a", "D", "Z"}

Directions == {"Incoming", "Outgoing"}

\* find_node(id, graph): the index of the node with exactly that id, the
\* first when several carry it; 0 stands for the not-found error.
find_node(g, id) ==
    IF \E i \in DOMAIN g.nodes : g.nodes[i].id = id
    THEN CHOOSE i \in DOMAIN g.nodes :
            /\ g.nodes[i].id = id
            /\ \A j \in DOMAIN g.nodes : g.nodes[j].id = id => i <= j
    ELSE 0

\* A loop that goes on to the next id when one is not found.
RECURSIVE FindEachUnchecked(_, _)
FindEachUnchecked(g, ids) ==
    IF ids = <<>> THEN [printed |-> <<>>, result |-> "Ok"]
    ELSE LET rest == FindEachUnchecked(g, Tail(ids))
         IN  [printed |-> (IF find_node(g, Head(ids)) = 0 THEN <<>>
                           ELSE <<find_node(g, Head(ids))>>) \o rest.printed,
              result |-> rest.result]

\* `for ref node in opts.nodes { find_node(node, ..).await?; }`: what was
\* printed, and Err as soon as an id is not found.
RECURSIVE FindEach(_, _)
FindEach(g, ids) ==
    IF ids = <<>> THEN [printed |-> <<>>, result |-> "Ok"]
    ELSE IF find_node(g, Head(ids)) = 0 THEN [printed |-> <<>>, result |-> "Err"]
    ELSE LET rest == FindEach(g, Tail(ids))
         IN  [printed |-> <<find_node(g, Head(ids))>> \o rest.printed,
              result |-> rest.result]

\* The neighbours with the two directions taken for one another.
find_neighbors_reversed(g, id, direction) ==
    LET i == find_node(g, id)
    IN  IF direction = "Incoming"
        THEN {e[2] : e \in {f \in g.edges : f[1] = i}}
        ELSE {e[1] : e \in {f \in g.edges : f[2] = i}}

\* find_neighbors(id, graph, direction): the nodes at the other end of the
\* edges into the node (Incoming) or out of it (Outgoing); none when no node
\* has the id.
find_neighbors(g, id, direction) ==
    LET i == find_node(g, id)
    IN  IF direction = "Incoming"
        THEN {e[1] : e \in {f \in g.edges : f[2] = i}}
        ELSE {e[2] : e \in {f \in g.edges : f[1] = i}}

\* The sequences that hold each element of the set once.
Orderings(set) ==
    {order \in [1..Cardinality(set) -> set] : Range(order) = set}

\* What a node query leaves alone.
unasked == <<files, todo_files, graph, dependency_hash_map, todo_entries, lookups,
             missing_definitions, orphans, filter, schema_type, extracted, walked, disk,
             opts_path, allowed_extensions, stack, lock, edge_count, calls, returned>>

\* if let Some(ref node) = opts.node { find_node(node, graph).await?; return Ok(()) }
FindNode ==
    /\ pc = "built"
    /\ \E id \in AskedIds :
          /\ asked' = [ids |-> <<id>>, direction |-> None]
          /\ printed' = FindEach(graph, <<id>>).printed
          /\ result' = FindEach(graph, <<id>>).result
    /\ flag' = "node"
    /\ pc' = "exit"
    /\ UNCHANGED unasked

\* if !opts.nodes.is_empty() { for ref node in opts.nodes { .. } return Ok(()) }
FindNodes ==
    /\ pc = "built"
    /\ \E k \in 1..MaxNodes :
          \E ids \in [1..k -> AskedIds] :
             /\ asked' = [ids |-> ids, direction |-> None]
             /\ printed' = FindEach(graph, ids).printed
             /\ result' = FindEach(graph, ids).result
    /\ flag' = "nodes"
    /\ pc' = "exit"
    /\ UNCHANGED unasked

\* opts.incoming_dependencies / opts.outgoing_dependencies:
\* find_and_print_neighbors(node, graph, direction).await?; return Ok(()).
\* The order of the entities is the query's own; whether an empty answer is
\* an error is left open.
FindAndPrintNeighbors ==
    /\ pc = "built"
    /\ \E id \in AskedIds, direction \in Directions :
          /\ asked' = [ids |-> <<id>>, direction |-> direction]
          /\ printed' \in Orderings(find_neighbors(graph, id, direction))
          /\ result' \in IF find_neighbors(graph, id, direction) = {}
                        THEN {"Ok", "Err"} ELSE {"Ok"}
    /\ flag' = "neighbors"
    /\ pc' = "exit"
    /\ UNCHANGED unasked

NextMain ==
    \/ NextFiles
    \/ Next
    \/ FindNode
    \/ FindNodes
    \/ FindAndPrintNeighbors

SpecMain == InitFiles /\ [][NextMain]_vars

-----------------------------------------------------------------------------
(* Properties of the node queries, over SpecMain. *)

\* The ids of asked.ids before the first that no node carries.
RECURSIVE FoundPrefix(_)
FoundPrefix(ids) ==
    IF ids = <<>> \/ ~ \E i \in NodeIndices : IdOf(i) = Head(ids) THEN <<>>
    ELSE <<Head(ids)>> \o FoundPrefix(Tail(ids))

\* C21: the node query prints the entity of a node whose id is the asked id,
\* letter for letter, and ends the run with Ok; when no node has the id the
\* run ends with Err and nothing is printed for that id.  With several ids
\* the nodes of the ids before the first absent one are printed, in order,
\* and the first absent id ends the run with Err.
C21_FindNodeExactOrNotFound ==
    flag \in {"node", "nodes"} =>
        /\ Len(printed) = Len(FoundPrefix(asked.ids))
        /\ \A k \in DOMAIN printed : IdOf(printed[k]) = asked.ids[k]
        /\ result = (IF Len(printed) = Len(asked.ids) THEN "Ok" ELSE "Err")

\* Two ids were asked for: the first is the id of a node, which was printed;
\* the second differs from an id only in case, and ended the run with Err.
C21_Witness ==
    /\ flag = "nodes"
    /\ asked.ids = <<"D", "a">>
    /\ \E i \in NodeIndices : IdOf(i) = "A"
    /\ Len(printed) = 1
    /\ result = "Err"

\* C22: the neighbour query prints, once each, exactly the entities at the
\* other end of the edges that touch the asked node in the asked direction:
\* the sources of the edges into it for Incoming, the targets of the edges
\* out of it for Outgoing; it prints nothing when no node has the id or the
\* node has no such edge.
C22_NeighborsAcrossEveryEdge ==
    flag = "neighbors" =>
        LET id == asked.ids[1]
            touched == {i \in NodeIndices : IdOf(i) = id /\ \A h \in NodeIndices : h < i => IdOf(h) # id}
        IN  /\ Len(printed) = Cardinality(Range(printed))
            /\ Range(printed) =
                  IF asked.direction = "Incoming"
                  THEN {j \in NodeIndices : \E i \in touched : <<j, i>> \in graph.edges}
                  ELSE {j \in NodeIndices : \E i \in touched : <<i, j>> \in graph.edges}
            /\ (touched = {} => printed = <<>>)

\* The incoming neighbours of A were asked for in a graph where two edges
\* lead into A and one leads out of it to one of the two: both sources were
\* printed.
C22_Witness ==
    /\ flag = "neighbors"
    /\ asked = [ids |-> <<"A">>, direction |-> "Incoming"]
    /\ Len(printed) = 2
    /\ \E e \in graph.edges : IdOf(e[1]) = "A" /\ e[2] \in Range(printed)
    /\ \E e \in graph.edges : IdOf(e[2]) = "A" /\ IdOf(e[1]) = "C"

-----------------------------------------------------------------------------
(* The lock and the file map, over SpecMain. *)

\* C28: no guard of the shared state is alive while a task waits on the file
\* system or while a directory is scanned, and no guard covers more than one
\* insert or lookup.
C28_LockCoversOneOperation ==
    /\ pc \in {"main", "get_files"} => ~lock.held
    /\ lock.operations <= 1

\* C29: a build only reads the file map: from the return of get_files on, no
\* step changes it, whether the build ends with Ok or with the parse error,
\* and the build starts only when get_files has returned Ok and none of its
\* calls is running.
C29_BuildLeavesFileMap ==
    [][/\ pc \notin {"main", "get_files"} => files' = files
       /\ (pc # "nodes" /\ pc' = "nodes") => (pc = "collected" /\ stack = <<>>)]_vars

\* The build took one file, made a node of its definition, and returned the
\* parse error of another, with both still in the map.
C29_Witness ==
    /\ pc = "exit"
    /\ result = "Err"
    /\ Len(graph.nodes) > 0
    /\ {"fx/a.gql", "fx/b.txt"} \subseteq DOMAIN files

====
